---- MODULE Spec2Model ----
(***************************************************************************)
(* A model of packages/svelte/analysis/svelte-dom-cover.py: the DOM        *)
(* canonicalizer, the call-tree builder, the tree analytics (flatten,      *)
(* DOM distance, path extraction), the cache document conversion and the   *)
(* three-phase set-cover optimisation.                                     *)
(***************************************************************************)
EXTENDS Integers, Sequences, FiniteSets, TLC

VARIABLES
    pc,             \* position of main(): which step runs next
    source,         \* the parsed source tree: function name -> raw references
    graph,          \* CallGraph built by build_graph
    trees,          \* function name -> CallTree
    coverage,       \* function name -> set of reachable DOM operations
    dom_distances,  \* function name -> finite DOM distance
    paths,          \* function name -> list of root-to-DOM paths
    ast_funcs,      \* override candidates handed to solve_all_approaches
    solutions,      \* strategy key -> selected names
    text,           \* canonicalizer: the raw reference under classification
    canonical,      \* canonicalizer: the result for text
    tree,           \* cache conversion: a CallTree
    doc,            \* cache conversion: a cache document
    out             \* cache conversion / analytics: result of the last step

vars == <<pc, source, graph, trees, coverage, dom_distances, paths, ast_funcs,
          solutions, text, canonical, tree, doc, out>>

pipelineVars == <<pc, source, graph, trees, coverage, dom_distances, paths,
                  ast_funcs, solutions>>
canonVars == <<text, canonical>>
cacheVars == <<tree, doc, out>>

\* Python's None
None == "None"

(***************************************************************************)
(* Generic helpers                                                         *)
(***************************************************************************)
Range(s) == {s[i] : i \in 1..Len(s)}

\* Python's `pattern in text` on strings
Contains(txt, pattern) ==
    \E i \in 1..(Len(txt) - Len(pattern) + 1) :
        SubSeq(txt, i, i + Len(pattern) - 1) = pattern

(***************************************************************************)
(* The DOM catalog                                                         *)
(***************************************************************************)
DOM_METHODS ==
    <<"createElement", "createElementNS", "createTextNode", "createComment",
      "createDocumentFragment", "importNode", "querySelector", "querySelectorAll",
      "getElementById", "getElementsByClassName", "getElementsByTagName", "appendChild",
      "removeChild", "replaceChild", "insertBefore", "cloneNode",
      "contains", "hasChildNodes", "append", "prepend",
      "before", "after", "remove", "replaceWith",
      "setAttribute", "setAttributeNS", "getAttribute", "removeAttribute",
      "hasAttribute", "toggleAttribute", "addEventListener", "removeEventListener",
      "dispatchEvent", "focus", "blur", "click",
      "scroll", "scrollIntoView", "getBoundingClientRect", "getClientRects",
      "matches", "closest" >>

DOM_ATTRIBUTES ==
    <<"value", "checked", "selected", "disabled",
      "readonly", "required", "autofocus", "placeholder",
      "maxLength", "minLength", "pattern", "accept",
      "multiple", "files", "form", "name",
      "type", "id", "className", "classList",
      "title", "lang", "dir", "hidden",
      "tabIndex", "accessKey", "contentEditable", "draggable",
      "spellcheck", "translate", "innerHTML", "outerHTML",
      "textContent", "innerText", "src", "href",
      "alt", "width", "height", "currentTime",
      "duration", "paused", "muted", "volume",
      "playbackRate", "ended", "seeking", "readyState",
      "style", "offsetWidth", "offsetHeight", "offsetTop",
      "offsetLeft", "clientWidth", "clientHeight", "clientTop",
      "clientLeft", "scrollWidth", "scrollHeight", "scrollTop",
      "scrollLeft", "parentNode", "parentElement", "childNodes",
      "children", "firstChild", "lastChild", "nextSibling",
      "previousSibling", "firstElementChild", "lastElementChild", "nextElementSibling",
      "previousElementSibling", "nodeType", "nodeName", "nodeValue",
      "ownerDocument", "dataset" >>

DOCUMENT_WINDOW_ATTRS ==
    <<"activeElement", "body", "head", "documentElement",
      "innerWidth", "innerHeight", "outerWidth", "outerHeight",
      "scrollX", "scrollY", "pageXOffset", "pageYOffset" >>

ALL_DOM_PATTERNS == DOM_METHODS \o DOM_ATTRIBUTES \o DOCUMENT_WINDOW_ATTRS

\* the literal lists tested by the three prefix branches of canonicalize_dom_call
DocumentMethods ==
    {"createElement", "createElementNS", "createTextNode",
     "createComment", "createDocumentFragment", "importNode",
     "querySelector", "querySelectorAll", "getElementById",
     "getElementsByClassName", "getElementsByTagName"}

WindowAttrs ==
    {"innerWidth", "innerHeight", "outerWidth", "outerHeight",
     "scrollX", "scrollY", "pageXOffset", "pageYOffset"}

NodeMembers ==
    {"appendChild", "removeChild", "replaceChild", "insertBefore",
     "cloneNode", "contains", "hasChildNodes", "append", "prepend",
     "before", "after", "remove", "replaceWith",
     "firstChild", "lastChild", "nextSibling", "previousSibling",
     "firstElementChild", "lastElementChild",
     "nextElementSibling", "previousElementSibling",
     "parentNode", "parentElement", "childNodes", "children",
     "nodeType", "nodeName", "nodeValue", "ownerDocument"}

\* the loop `for pattern in catalog: if pattern in text: ...; break`
FirstMatch(catalog, txt) ==
    LET hits == {i \in 1..Len(catalog) : Contains(txt, catalog[i])}
    IN  IF hits = {} THEN None
        ELSE catalog[CHOOSE i \in hits : \A j \in hits : i <= j]

\* the namespace branches applied to the winning pattern
PrefixOf(matching_pattern) ==
    IF matching_pattern \in DocumentMethods THEN "document." \o matching_pattern
    ELSE IF matching_pattern \in Range(DOCUMENT_WINDOW_ATTRS)
         THEN IF matching_pattern \in WindowAttrs
              THEN "window." \o matching_pattern
              ELSE "document." \o matching_pattern
    ELSE IF matching_pattern \in NodeMembers THEN "node." \o matching_pattern
    ELSE "element." \o matching_pattern

canonicalize_dom_call(txt) ==
    LET matching_pattern == FirstMatch(ALL_DOM_PATTERNS, txt)
    IN  IF matching_pattern = None THEN None ELSE PrefixOf(matching_pattern)

(***************************************************************************)
(* CallTree (a NamedTuple: function, direct_dom, function_calls) and the   *)
(* cache document (a dict with the keys function, direct_dom,              *)
(* function_calls)                                                         *)
(***************************************************************************)
CallTree(function, direct_dom, function_calls) ==
    <<function, direct_dom, function_calls>>

FunctionOf(t) == t[1]
DirectDom(t) == t[2]
FunctionCalls(t) == t[3]

\* dict.get(key, default) on a document
DocGet(data, key, default) ==
    IF key \in DOMAIN data THEN data[key] ELSE default

\* variant: the children of a document are not converted
from_dict_flat(data) ==
    CallTree(data["function"], DocGet(data, "direct_dom", <<>>), <<>>)

RECURSIVE from_dict(_)
from_dict(data) ==
    LET cs == DocGet(data, "function_calls", <<>>)
    IN  CallTree(data["function"],
                 DocGet(data, "direct_dom", <<>>),
                 [i \in 1..Len(cs) |-> from_dict(cs[i])])

RECURSIVE to_dict(_)
to_dict(t) ==
    [function |-> FunctionOf(t),
     direct_dom |-> DirectDom(t),
     function_calls |-> [i \in 1..Len(FunctionCalls(t)) |-> to_dict(FunctionCalls(t)[i])]]

(***************************************************************************)
(* Tree analytics                                                          *)
(***************************************************************************)
\* float('inf')
Inf == 1000000

\* 1 + d on floats: inf absorbs
PlusOne(d) == IF d = Inf THEN Inf ELSE d + 1

MinOf(S) == CHOOSE m \in S : \A n \in S : m <= n

\* variant: a dead end (no direct DOM, no children) counts as distance 0
RECURSIVE calc_dom_distance_dead_end_zero(_)
calc_dom_distance_dead_end_zero(t) ==
    IF DirectDom(t) # <<>> THEN 0
    ELSE IF FunctionCalls(t) = <<>> THEN 0
    ELSE PlusOne(MinOf({calc_dom_distance_dead_end_zero(FunctionCalls(t)[i]) :
                            i \in 1..Len(FunctionCalls(t))}))

RECURSIVE calc_dom_distance(_)
calc_dom_distance(t) ==
    IF DirectDom(t) # <<>> THEN 0
    ELSE IF FunctionCalls(t) = <<>> THEN Inf
    ELSE PlusOne(MinOf({calc_dom_distance(FunctionCalls(t)[i]) :
                            i \in 1..Len(FunctionCalls(t))}))

RECURSIVE flatten_tree(_)
flatten_tree(t) ==
    Range(DirectDom(t)) \cup
    UNION {flatten_tree(FunctionCalls(t)[i]) : i \in 1..Len(FunctionCalls(t))}

\* paths.extend(child_paths) over the children, in order
RECURSIVE ConcatAll(_)
ConcatAll(seqs) ==
    IF seqs = <<>> THEN <<>> ELSE Head(seqs) \o ConcatAll(Tail(seqs))

\* variant: one path per direct DOM operation instead of one per node
RECURSIVE extract_paths_per_operation(_, _)
extract_paths_per_operation(t, current_path) ==
    LET here == current_path \o <<FunctionOf(t)>>
        own == [i \in 1..Len(DirectDom(t)) |-> here]
    IN  own \o ConcatAll([i \in 1..Len(FunctionCalls(t)) |->
                              extract_paths_per_operation(FunctionCalls(t)[i], here)])

RECURSIVE extract_all_paths(_, _)
extract_all_paths(t, current_path) ==
    LET here == current_path \o <<FunctionOf(t)>>
        own == IF DirectDom(t) # <<>> THEN <<here>> ELSE <<>>
    IN  own \o ConcatAll([i \in 1..Len(FunctionCalls(t)) |->
                              extract_all_paths(FunctionCalls(t)[i], here)])

(***************************************************************************)
(* Dictionaries are functions on their key set                             *)
(***************************************************************************)
EmptyDict == [k \in {} |-> {}]

\* dict.get(k, default)
Get(d, k, default) == IF k \in DOMAIN d THEN d[k] ELSE default

\* filter_dict(d, pred), the predicate given by the values it rejects
filter_dict(d, rejected) == [k \in {j \in DOMAIN d : d[j] \notin rejected} |-> d[k]]

(***************************************************************************)
(* sorted(): every string the pipeline sorts, in Python's string order     *)
(***************************************************************************)
SortOrder ==
    <<"document.createElement", "el.focus", "element.focus", "element.id",
      "leaf", "mdl", "mid", "root">>

sorted(S) == SelectSeq(SortOrder, LAMBDA r : r \in S)

(***************************************************************************)
(* build_graph: the per-function part (the file scan and the syntax engine *)
(* are external; `bodies` is their result: function -> raw references)     *)
(***************************************************************************)
\* the raw references that occur in the analysed source trees
FunctionNames == {"root", "mid", "mdl", "leaf"}
DomRefs == {"document.createElement", "el.focus"}
RefPool == FunctionNames \cup DomRefs

\* canonicalize_dom_call and is_dom_call are pure: their values on the
\* references of the source tree, computed once
CanonicalOf == [call \in RefPool |-> canonicalize_dom_call(call)]

build_graph(bodies, exports) ==
    [exports   |-> exports,
     all_funcs |-> DOMAIN bodies,
     calls     |-> bodies,
     dom_calls |-> [f \in DOMAIN bodies |->
                       {CanonicalOf[call] : call \in bodies[f]} \ {None}]]

(***************************************************************************)
(* build_call_tree                                                         *)
(***************************************************************************)
is_dom_call(call) ==
    \E i \in 1..Len(ALL_DOM_PATTERNS) : Contains(call, ALL_DOM_PATTERNS[i])

IsDomCallOf == [call \in RefPool |-> is_dom_call(call)]

\* variant: a revisited function keeps its direct DOM operations
Stub_with_dom(g, func) == CallTree(func, sorted(Get(g.dom_calls, func, {})), <<>>)

\* what a revisited function becomes: CallTree(func)
Stub(g, func) == CallTree(func, <<>>, <<>>)

RECURSIVE build_call_tree(_, _, _)
build_call_tree(g, func, visited) ==
    IF func \in visited THEN Stub(g, func)
    ELSE LET seen == visited \cup {func}
             callees == SelectSeq(sorted(Get(g.calls, func, {})),
                                  LAMBDA call : call \in g.all_funcs /\ ~IsDomCallOf[call])
         IN  CallTree(func,
                      sorted(Get(g.dom_calls, func, {})),
                      [i \in 1..Len(callees) |-> build_call_tree(g, callees[i], seen)])

(***************************************************************************)
(* expand_to_dom                                                           *)
(***************************************************************************)
collect_funcs_in_paths(ps) ==
    UNION {UNION {Range(ps[f][i]) : i \in 1..Len(ps[f])} : f \in DOMAIN ps}

expand_to_dom(g) ==
    LET roots == [f \in g.exports |-> build_call_tree(g, f, {})]
        cov == filter_dict([f \in DOMAIN roots |-> flatten_tree(roots[f])], {{}})
        ps == [f \in DOMAIN cov |-> extract_all_paths(roots[f], <<>>)]
        internal == (collect_funcs_in_paths(ps) \ DOMAIN roots) \cap g.all_funcs
        ts == [f \in DOMAIN roots \cup internal |->
                  IF f \in DOMAIN roots THEN roots[f] ELSE build_call_tree(g, f, {})]
    IN  [trees |-> ts,
         coverage |-> cov,
         dom_distances |-> filter_dict([f \in DOMAIN ts |-> calc_dom_distance(ts[f])], {Inf}),
         paths |-> ps]

(***************************************************************************)
(* prepare_solver_input                                                    *)
(***************************************************************************)
\* [path for path_list in paths.values() for path in path_list]; the dict
\* is walked here in sorted key order (the order of the constraints has no
\* effect on the set of optimal selections)
AllPaths(ps) ==
    LET keys == sorted(DOMAIN ps)
    IN  ConcatAll([i \in 1..Len(keys) |-> ps[keys[i]]])

Last(path) == path[Len(path)]

\* variant: only the terminal function of a path is a candidate
prepare_solver_input_terminals(ps, cov, dists, afuncs, include_dom) ==
    LET all_paths == AllPaths(ps)
        leaves == {Last(all_paths[i]) : i \in {j \in 1..Len(all_paths) : all_paths[j] # <<>>}}
        ast_candidates == sorted(leaves \cap afuncs)
    IN  [ast_candidates |-> ast_candidates,
         dom_candidates |-> IF include_dom
                            THEN sorted(UNION {cov[f] : f \in DOMAIN cov})
                            ELSE <<>>,
         path_constraints |-> [i \in 1..Len(all_paths) |->
                                  SelectSeq(all_paths[i], LAMBDA f : f \in Range(ast_candidates))],
         leaf_dom_map |-> IF include_dom
                          THEN [f \in leaves |-> Get(cov, f, {})]
                          ELSE EmptyDict,
         ast_scores |-> [f \in Range(ast_candidates) |-> Get(dists, f, 0)]]

prepare_solver_input(ps, cov, dists, afuncs, include_dom) ==
    LET ast_candidates == sorted(collect_funcs_in_paths(ps) \cap afuncs)
        all_paths == AllPaths(ps)
        leaves == {Last(all_paths[i]) : i \in {j \in 1..Len(all_paths) : all_paths[j] # <<>>}}
    IN  [ast_candidates |-> ast_candidates,
         dom_candidates |-> IF include_dom
                            THEN sorted(UNION {cov[f] : f \in DOMAIN cov})
                            ELSE <<>>,
         path_constraints |-> [i \in 1..Len(all_paths) |->
                                  SelectSeq(all_paths[i], LAMBDA f : f \in Range(ast_candidates))],
         leaf_dom_map |-> IF include_dom
                          THEN [f \in leaves |-> Get(cov, f, {})]
                          ELSE EmptyDict,
         ast_scores |-> [f \in Range(ast_candidates) |-> Get(dists, f, 0)]]

(***************************************************************************)
(* solve_set_cover: the binary program and its three phases.  A selection  *)
(* is the set of variables whose value is 1; AST variables are keyed by    *)
(* function name, DOM variables by make_dom_key.                           *)
(***************************************************************************)
DOM_PREFIX == "DOM:"
make_dom_key(d) == DOM_PREFIX \o d
parse_dom_key(k) == SubSeq(k, Len(DOM_PREFIX) + 1, Len(k))

XAst(input) == Range(input.ast_candidates)
XDom(input) == {make_dom_key(d) : d \in Range(input.dom_candidates)}

\* the variables of one coverage constraint: ast_vars + dom_vars
ConstraintVars(input, path) ==
    LET ast_vars == {f \in Range(path) : f \in XAst(input)}
        leaf_func == IF path # <<>> THEN Last(path) ELSE None
        dom_vars == {make_dom_key(d) : d \in Get(input.leaf_dom_map, leaf_func, {})}
    IN  ast_vars \cup dom_vars

Satisfies(input, sel) ==
    \A i \in 1..Len(input.path_constraints) :
        sel \cap ConstraintVars(input, input.path_constraints[i]) # {}

\* the assignments that meet every coverage constraint
Feasible(input) ==
    LET constraints == {ConstraintVars(input, input.path_constraints[i]) :
                            i \in 1..Len(input.path_constraints)}
    IN  {sel \in SUBSET (XAst(input) \cup XDom(input)) :
            \A c \in constraints : sel \cap c # {}}

RECURSIVE SumScores(_, _)
SumScores(scores, S) ==
    IF S = {} THEN 0
    ELSE LET f == CHOOSE x \in S : TRUE
         IN  scores[f] + SumScores(scores, S \ {f})

\* variant: the minimal total count is not fixed after the first phase
Phase1_unfixed(input) == Feasible(input)

\* Phase 1: minimize the total count, then fix it
Phase1(input) ==
    LET F == Feasible(input)
        objective_value == MinOf({Cardinality(sel) : sel \in F})
    IN  IF F = {} THEN {} ELSE {sel \in F : Cardinality(sel) = objective_value}

\* variant: the DOM count is never minimized
Phase2_skipped(input) == Phase1(input)

\* Phase 2: hybrid only, minimize the DOM count, then fix it
Phase2(input) ==
    LET F == Phase1(input)
        objective_value == MinOf({Cardinality(sel \cap XDom(input)) : sel \in F})
    IN  IF F # {} /\ input.dom_candidates # <<>>
        THEN {sel \in F : Cardinality(sel \cap XDom(input)) = objective_value}
        ELSE F

\* variant: the sign of the preference is the other way round
Phase3_reversed(input, prefer_low_score) ==
    LET F == Phase2(input)
        sign == IF prefer_low_score THEN -1 ELSE 1
        Obj(sel) == sign * SumScores(input.ast_scores, sel \cap XAst(input))
        objective_value == MinOf({Obj(sel) : sel \in F})
    IN  IF F = {} THEN {} ELSE {sel \in F : Obj(sel) = objective_value}

\* Phase 3: minimize sign * score over the AST variables
Phase3(input, prefer_low_score) ==
    LET F == Phase2(input)
        sign == IF prefer_low_score THEN 1 ELSE -1
        Obj(sel) == sign * SumScores(input.ast_scores, sel \cap XAst(input))
        objective_value == MinOf({Obj(sel) : sel \in F})
    IN  IF F = {} THEN {} ELSE {sel \in F : Obj(sel) = objective_value}

\* the (ast, dom) pair returned for the final assignment sel
Returned(input, sel) ==
    [ast |-> SelectSeq(input.ast_candidates, LAMBDA f : f \in sel),
     dom |-> LET ks == SelectSeq(input.dom_candidates, LAMBDA d : make_dom_key(d) \in sel)
             IN  [i \in 1..Len(ks) |-> parse_dom_key(make_dom_key(ks[i]))]]

\* every result the solver may return; empty when the program is infeasible
solve_set_cover(input, prefer_low_score) ==
    {Returned(input, sel) : sel \in Phase3(input, prefer_low_score)}

(***************************************************************************)
(* The analysed inputs, bounded                                            *)
(***************************************************************************)
\* the total number of references in the analysed source tree
MaxRefs == 4

\* every assignment of raw references to the functions fs with at most k
\* references in all; a function without references has no body
RECURSIVE BodiesUpTo(_, _, _)
BodiesUpTo(fs, pool, k) ==
    IF fs = {} THEN {EmptyDict}
    ELSE LET f == CHOOSE x \in fs : TRUE
         IN  UNION {{IF refs = {} THEN b
                     ELSE [g \in DOMAIN b \cup {f} |-> IF g = f THEN refs ELSE b[g]] :
                        b \in BodiesUpTo(fs \ {f}, pool, k - Cardinality(refs))} :
                    refs \in {r \in SUBSET pool : Cardinality(r) <= k}}

\* one source tree uses three function names; "root" is always exported
NameSets == {FunctionNames \ {"mdl"}, FunctionNames \ {"mid"}}

\* the export sets of a source tree over the given function names
ExportSets(names) == {x \in SUBSET names : "root" \in x}

Unset == <<>>

(***************************************************************************)
(* main(): build the graph, expand it, run the four strategies             *)
(***************************************************************************)
Init ==
    /\ pc = "start"
    /\ \E names \in NameSets :
           \E b \in BodiesUpTo(names, names \cup DomRefs, MaxRefs) :
               \E e \in ExportSets(names) :
                   source = [exports |-> e, bodies |-> b]
    /\ graph = Unset
    /\ trees = Unset
    /\ coverage = Unset
    /\ dom_distances = Unset
    /\ paths = Unset
    /\ ast_funcs = Unset
    /\ solutions = EmptyDict
    /\ text = Unset
    /\ canonical = Unset
    /\ tree = Unset
    /\ doc = Unset
    /\ out = Unset

BuildGraph ==
    /\ pc = "start"
    /\ graph' = build_graph(source.bodies, source.exports)
    /\ pc' = "built"
    /\ UNCHANGED <<source, trees, coverage, dom_distances, paths, ast_funcs, solutions>>
    /\ UNCHANGED <<canonVars, cacheVars>>

ExpandToDom ==
    /\ pc = "built"
    /\ LET r == expand_to_dom(graph)
       IN  /\ trees' = r.trees
           /\ coverage' = r.coverage
           /\ dom_distances' = r.dom_distances
           /\ paths' = r.paths
    /\ pc' = "expanded"
    /\ UNCHANGED <<source, graph, ast_funcs, solutions>>
    /\ UNCHANGED <<canonVars, cacheVars>>

\* the configs of solve_all_approaches, in order: (include_dom, prefer_low)
Strategies == <<"ast_low", "ast_high", "hybrid_low", "hybrid_high">>
IncludeDom(name) == name \in {"hybrid_low", "hybrid_high"}
PreferLow(name) == name \in {"ast_low", "hybrid_low"}

SolverInput(name) ==
    prepare_solver_input(paths, coverage, dom_distances, ast_funcs, IncludeDom(name))

\* main() passes the exported functions; the solver entry point itself
\* accepts any candidate set, here also every known function
SolveAllApproaches ==
    /\ pc = "expanded"
    /\ \E afuncs \in {graph.exports, graph.all_funcs} : ast_funcs' = afuncs
    /\ pc' = Strategies[1]
    /\ UNCHANGED <<source, graph, trees, coverage, dom_distances, paths, solutions>>
    /\ UNCHANGED <<canonVars, cacheVars>>

NextPc(name) ==
    LET i == CHOOSE j \in 1..Len(Strategies) : Strategies[j] = name
    IN  IF i = Len(Strategies) THEN "done" ELSE Strategies[i + 1]

\* one iteration of the loop over configs
SolveStrategy ==
    /\ pc \in Range(Strategies)
    /\ LET results == solve_set_cover(SolverInput(pc), PreferLow(pc))
       IN  IF results = {}
           THEN /\ pc' = "infeasible"
                /\ UNCHANGED solutions
           ELSE /\ \E r \in results :
                       solutions' = [k \in DOMAIN solutions \cup {pc} |->
                                        IF k = pc THEN r ELSE solutions[k]]
                /\ pc' = NextPc(pc)
    /\ UNCHANGED <<source, graph, trees, coverage, dom_distances, paths, ast_funcs>>
    /\ UNCHANGED <<canonVars, cacheVars>>

Next == BuildGraph \/ ExpandToDom \/ SolveAllApproaches \/ SolveStrategy

Spec == Init /\ [][Next]_vars

(***************************************************************************)
(* The canonicalizer on its own: one raw reference, classified             *)
(***************************************************************************)
Receivers == {"", "el.", "document.", "window.", "parentNode.", "someLocalVar."}
Members == Range(ALL_DOM_PATTERNS) \cup {"doStuff"}
Arguments == {"", "()", "(x)", "('div')"}
Texts == {r \o m \o a : r \in Receivers, m \in Members, a \in Arguments}

InitCanon ==
    /\ pc = "text"
    /\ text \in Texts
    /\ canonical = Unset
    /\ source = Unset
    /\ graph = Unset
    /\ trees = Unset
    /\ coverage = Unset
    /\ dom_distances = Unset
    /\ paths = Unset
    /\ ast_funcs = Unset
    /\ solutions = EmptyDict
    /\ tree = Unset
    /\ doc = Unset
    /\ out = Unset

Canonicalize ==
    /\ pc = "text"
    /\ canonical' = canonicalize_dom_call(text)
    /\ pc' = "canonical"
    /\ UNCHANGED <<text, cacheVars>>
    /\ UNCHANGED <<source, graph, trees, coverage, dom_distances, paths, ast_funcs, solutions>>

NextCanon == Canonicalize

SpecCanon == InitCanon /\ [][NextCanon]_vars

(***************************************************************************)
(* Call trees and cache documents on their own: conversion both ways and   *)
(* path extraction, on every tree and document up to a size                *)
(***************************************************************************)
\* the number of nodes of a call tree / cache document
MaxNodes == 3

TreeFunctions == {"f", "g"}
TreeDoms == {<<>>, <<"element.focus">>, <<"node.append", "document.body">>}

RECURSIVE TreesOfSize(_), ForestsOfSize(_)
TreesOfSize(n) ==
    {CallTree(fn, d, kids) :
        fn \in TreeFunctions, d \in TreeDoms, kids \in ForestsOfSize(n - 1)}

ForestsOfSize(m) ==
    IF m = 0 THEN {<<>>}
    ELSE UNION {{<<t>> \o rest : t \in TreesOfSize(k), rest \in ForestsOfSize(m - k)} :
                k \in 1..m}

Trees == UNION {TreesOfSize(n) : n \in 1..MaxNodes}

\* documents of the cache shape, and documents that leave out a key
\* (from_dict reads direct_dom and function_calls with a default)
FullDocs == {to_dict(t) : t \in Trees}
SparseDocs ==
    {[function |-> d.function, direct_dom |-> d.direct_dom] :
        d \in {e \in FullDocs : e.function_calls = <<>>}}
    \cup {[function |-> d.function, function_calls |-> d.function_calls] :
        d \in {e \in FullDocs : e.direct_dom = <<>>}}
Docs == FullDocs \cup SparseDocs

InitTree ==
    /\ \/ pc = "tree" /\ tree \in Trees /\ doc = Unset
       \/ pc = "doc" /\ doc \in Docs /\ tree = Unset
    /\ out = Unset
    /\ text = Unset
    /\ canonical = Unset
    /\ source = Unset
    /\ graph = Unset
    /\ trees = Unset
    /\ coverage = Unset
    /\ dom_distances = Unset
    /\ paths = Unset
    /\ ast_funcs = Unset
    /\ solutions = EmptyDict

\* main(): tree_data = trees[f].to_dict()
ToDict ==
    /\ pc = "tree"
    /\ doc' = to_dict(tree)
    /\ pc' = "tree_saved"
    /\ UNCHANGED <<tree, out>>
    /\ UNCHANGED <<canonVars, source, graph, trees, coverage, dom_distances, paths, ast_funcs, solutions>>

\* load_call_tree(): CallTree.from_dict(d) on what was saved
FromDictBack ==
    /\ pc = "tree_saved"
    /\ out' = from_dict(doc)
    /\ pc' = "tree_reloaded"
    /\ UNCHANGED <<tree, doc>>
    /\ UNCHANGED <<canonVars, source, graph, trees, coverage, dom_distances, paths, ast_funcs, solutions>>

\* load_call_tree(): CallTree.from_dict(d) on a document found on disk
FromDict ==
    /\ pc = "doc"
    /\ tree' = from_dict(doc)
    /\ pc' = "doc_loaded"
    /\ UNCHANGED <<doc, out>>
    /\ UNCHANGED <<canonVars, source, graph, trees, coverage, dom_distances, paths, ast_funcs, solutions>>

ToDictBack ==
    /\ pc = "doc_loaded"
    /\ out' = to_dict(tree)
    /\ pc' = "doc_resaved"
    /\ UNCHANGED <<tree, doc>>
    /\ UNCHANGED <<canonVars, source, graph, trees, coverage, dom_distances, paths, ast_funcs, solutions>>

ExtractAllPaths ==
    /\ pc \in {"tree", "doc_loaded"}
    /\ out' = extract_all_paths(tree, <<>>)
    /\ pc' = "paths"
    /\ UNCHANGED <<tree, doc>>
    /\ UNCHANGED <<canonVars, source, graph, trees, coverage, dom_distances, paths, ast_funcs, solutions>>

NextTree == ToDict \/ FromDictBack \/ FromDict \/ ToDictBack \/ ExtractAllPaths

SpecTree == InitTree /\ [][NextTree]_vars

(***************************************************************************)
(* Properties of the canonicalizer                                         *)
(***************************************************************************)
\* the catalog in the order construction/query methods, global
\* document/window attributes, node/element methods and attributes
CatalogByGroup ==
    SubSeq(DOM_METHODS, 1, 11) \o DOCUMENT_WINDOW_ATTRS
        \o SubSeq(DOM_METHODS, 12, Len(DOM_METHODS)) \o DOM_ATTRIBUTES

\* C4: the result is "not a DOM operation" iff no catalog name is a
\* substring of the input, and otherwise it is the namespace-prefixed first
\* match of the catalog taken in the order construction/query methods, global
\* document/window attributes, node/element methods and attributes (so an
\* input containing innerWidth or scrollX yields window.<name>).
C4_FirstMatchByGroup ==
    pc = "canonical" =>
        LET winner == FirstMatch(CatalogByGroup, text)
        IN  /\ (canonical = None) <=> ~(\E i \in 1..Len(CatalogByGroup) :
                                           Contains(text, CatalogByGroup[i]))
            /\ canonical # None => canonical = PrefixOf(winner)

(***************************************************************************)
(* Properties of the cache conversion and of path extraction               *)
(***************************************************************************)
\* a document of the cache shape: all three keys at every level
RECURSIVE FullShape(_)
FullShape(d) ==
    /\ DOMAIN d = {"function", "direct_dom", "function_calls"}
    /\ \A i \in 1..Len(d.function_calls) : FullShape(d.function_calls[i])

\* C5: converting a tree to a document and back yields the same tree, and
\* converting a document of the cache shape to a tree and back yields the
\* same document.
C5_RoundTrip ==
    /\ pc = "tree_reloaded" => out = tree
    /\ (pc = "doc_resaved" /\ FullShape(doc)) => out = doc

C5_Witness ==
    /\ pc = "doc_resaved"
    /\ FullShape(doc)
    /\ Len(doc.direct_dom) = 2
    /\ \E i \in 1..Len(doc.function_calls) : doc.function_calls[i].function_calls # <<>>

\* the positions of the nodes of a tree: the child indices from the root
RECURSIVE Positions(_)
Positions(t) ==
    {<<>>} \cup UNION {{<<i>> \o q : q \in Positions(FunctionCalls(t)[i])} :
                       i \in 1..Len(FunctionCalls(t))}

RECURSIVE NodeAt(_, _)
NodeAt(t, pos) ==
    IF pos = <<>> THEN t ELSE NodeAt(FunctionCalls(t)[Head(pos)], Tail(pos))

\* the function names on the walk from the root to the node at pos, inclusive
RECURSIVE Walk(_, _)
Walk(t, pos) ==
    IF pos = <<>> THEN <<FunctionOf(t)>>
    ELSE <<FunctionOf(t)>> \o Walk(FunctionCalls(t)[Head(pos)], Tail(pos))

DomPositions(t) == {q \in Positions(t) : DirectDom(NodeAt(t, q)) # <<>>}

\* ps holds exactly one path per DOM-performing node of t: the walk to it
OnePathPerDomNode(t, ps) ==
    /\ Len(ps) = Cardinality(DomPositions(t))
    /\ \A w \in Range(ps) \cup {Walk(t, q) : q \in DomPositions(t)} :
           Cardinality({i \in 1..Len(ps) : ps[i] = w})
               = Cardinality({q \in DomPositions(t) : Walk(t, q) = w})

\* C6: path extraction returns exactly one path per node with direct DOM
\* operations, however many operations the node has, and each path is the
\* walk of function names from the root to that node.
C6_OnePathPerDomNode ==
    pc = "paths" => OnePathPerDomNode(tree, out)

C6_Witness ==
    /\ pc = "paths"
    /\ Len(out) = 2
    /\ \E q \in Positions(tree) : Len(DirectDom(NodeAt(tree, q))) = 2
    /\ \E q \in Positions(tree) : DirectDom(NodeAt(tree, q)) = <<>>

(***************************************************************************)
(* Properties of the tree builder and of the DOM distance                  *)
(***************************************************************************)
Expanded == pc \in {"expanded", "done", "infeasible"} \cup Range(Strategies)

\* the calls build_call_tree follows from a function, in order
Callees(g, func) ==
    SelectSeq(sorted(Get(g.calls, func, {})),
              LAMBDA call : call \in g.all_funcs /\ ~IsDomCallOf[call])

\* C10: every tree is built (also over call cycles and self-calls) and is
\* at most one level deeper than the number of functions; on every walk from
\* the root a function that is already on the walk appears only as a leaf
\* stub, and a function that is not on the walk so far is expanded in full
\* (its direct DOM operations and all its callees), whatever other branches
\* have expanded.
C10_PerBranchVisited ==
    Expanded =>
        \A f \in DOMAIN trees : \A q \in Positions(trees[f]) :
            LET node == NodeAt(trees[f], q)
                w == Walk(trees[f], q)
                name == FunctionOf(node)
                ancestors == {w[i] : i \in 1..(Len(w) - 1)}
                kids == FunctionCalls(node)
            IN  /\ Len(w) <= Cardinality(graph.all_funcs \cup {f}) + 1
                /\ name \in ancestors => node = CallTree(name, <<>>, <<>>)
                /\ name \notin ancestors =>
                       /\ DirectDom(node) = sorted(Get(graph.dom_calls, name, {}))
                       /\ [i \in 1..Len(kids) |-> FunctionOf(kids[i])] = Callees(graph, name)

\* a function expanded in two sibling branches, each time down to the stub
\* that cuts its self-call
C10_Witness ==
    /\ pc = "expanded"
    /\ \E f \in DOMAIN trees : \E q1, q2 \in Positions(trees[f]) :
           /\ Len(q1) < Len(q2)
           /\ SubSeq(q2, 1, Len(q1)) # q1
           /\ NodeAt(trees[f], q1) = NodeAt(trees[f], q2)
           /\ \E i \in 1..Len(FunctionCalls(NodeAt(trees[f], q1))) :
                  FunctionCalls(NodeAt(trees[f], q1))[i]
                      = CallTree(FunctionOf(NodeAt(trees[f], q1)), <<>>, <<>>)

\* DOM_distance(g): the distance of the tree built for g
DomDistance(g) == calc_dom_distance(build_call_tree(graph, g, {}))

\* C7: for every function with a built tree the recorded distance is 0 iff
\* the function has direct DOM operations; without direct DOM it is 1 + the
\* least distance of the functions it calls, and a function with no direct
\* DOM and no callees has no entry in dom_distances (its distance is
\* infinite); no entry of dom_distances is infinite.
C7_DomDistance ==
    Expanded =>
        \A f \in DOMAIN trees :
            LET direct == Get(graph.dom_calls, f, {})
                kids == FunctionCalls(trees[f])
                d == Get(dom_distances, f, Inf)
            IN  /\ (d = 0) <=> (direct # {})
                /\ (direct = {} /\ kids # <<>>) =>
                       d = PlusOne(MinOf({DomDistance(FunctionOf(kids[i])) : i \in 1..Len(kids)}))
                /\ (direct = {} /\ kids = <<>>) => f \notin DOMAIN dom_distances
                /\ f \in DOMAIN dom_distances => dom_distances[f] # Inf

C7_Witness ==
    /\ pc = "expanded"
    /\ \E f \in DOMAIN dom_distances : dom_distances[f] = 1
    /\ \E f \in DOMAIN dom_distances : dom_distances[f] = 0
    /\ \E g \in DOMAIN trees \ DOMAIN dom_distances : FunctionCalls(trees[g]) # <<>>

(***************************************************************************)
(* Properties of the covering problem and of its solutions                 *)
(***************************************************************************)
InputOf(name) ==
    prepare_solver_input(paths, coverage, dom_distances, ast_funcs, IncludeDom(name))

\* the selection a returned (ast, dom) pair stands for
SelectionOf(r) == Range(r.ast) \cup {make_dom_key(d) : d \in Range(r.dom)}

\* every extracted path, over all roots
ExtractedPaths == UNION {Range(paths[f]) : f \in DOMAIN paths}

\* C1: every strategy's solution is a valid cover of every extracted path:
\* a selected function lies on the path, or (hybrid) a selected DOM operation
\* belongs to the coverage of the path's terminal function.
C1_ValidCover ==
    \A k \in DOMAIN solutions : \A path \in ExtractedPaths :
        \/ Range(solutions[k].ast) \cap Range(path) # {}
        \/ /\ IncludeDom(k)
           /\ Range(solutions[k].dom) \cap flatten_tree(trees[Last(path)]) # {}

\* C2: a returned solution satisfies every path constraint and no selection
\* that satisfies them is better in the order: fewer variables in total;
\* then (hybrid) fewer DOM variables; then a lower (prefer-low) or higher
\* (prefer-high) sum of the scores of the selected functions.
C2_LexOptimal ==
    \A k \in DOMAIN solutions :
        LET input == InputOf(k)
            sel == SelectionOf(solutions[k])
            Total(x) == Cardinality(x)
            Doms(x) == Cardinality(x \cap XDom(input))
            Score(x) == SumScores(input.ast_scores, x \cap XAst(input))
            Better(x, y) ==
                \/ Total(x) < Total(y)
                \/ Total(x) = Total(y) /\ IncludeDom(k) /\ Doms(x) < Doms(y)
                \/ /\ Total(x) = Total(y)
                   /\ IncludeDom(k) => Doms(x) = Doms(y)
                   /\ IF PreferLow(k) THEN Score(x) < Score(y) ELSE Score(x) > Score(y)
        IN  /\ Satisfies(input, sel)
            /\ \A other \in Feasible(input) : ~Better(other, sel)

\* all three phases decide: a hybrid instance where the DOM count separates
\* minimum-size selections, and the scores separate what is left
C2_Witness ==
    /\ pc = "done"
    /\ Cardinality(Phase1(InputOf("hybrid_low"))) > Cardinality(Phase2(InputOf("hybrid_low")))
    /\ Cardinality(Phase2(InputOf("hybrid_low")))
           > Cardinality(Phase3(InputOf("hybrid_low"), TRUE))
    /\ solutions["hybrid_low"] # solutions["hybrid_high"]

\* the 3-function graph: root calls m, m performs document.createElement
\* and calls leaf, leaf performs element.focus; root is the export
ExampleSource(m) ==
    [exports |-> {"root"},
     bodies |-> [f \in {"root", m, "leaf"} |->
                    IF f = "root" THEN {m}
                    ELSE IF f = m THEN {"document.createElement", "leaf"}
                    ELSE {"el.focus"}]]

ExampleResult(m) ==
    /\ Get(dom_distances, "root", Inf) = 1
    /\ Get(paths, "root", <<>>) = << <<"root", m>>, <<"root", m, "leaf">> >>
    /\ Get(solutions, "ast_low", [ast |-> <<>>]).ast = <<m>>

ExampleRun(m) ==
    /\ pc = "done"
    /\ source = ExampleSource(m)
    /\ ast_funcs = {"root", m, "leaf"}

\* C3 as stated: on the graph with the functions root, mid and leaf the
\* tree of root has DOM distance 1, the paths are [root, mid] and
\* [root, mid, leaf], and AST-only prefer-low selects exactly {mid}.
C3_ExampleMid ==
    ExampleRun("mid") => ExampleResult("mid")

\* C3 amended: the same graph with the middle function named mdl (no
\* catalog name is a substring of it): distance 1, paths [root, mdl] and
\* [root, mdl, leaf], AST-only prefer-low selects exactly {mdl}.
C3_ExampleMdl ==
    ExampleRun("mdl") => ExampleResult("mdl")

C3_Witness ==
    /\ ExampleRun("mdl")
    /\ solutions["ast_low"].ast = <<"mdl">>
    /\ solutions["ast_high"].ast = <<"root">>

\* C8: with the exported functions as candidates, every path constraint of
\* each of the four instances has at least one variable, the instance has a
\* satisfying selection, and the solver never reports infeasibility.
C8_AlwaysFeasible ==
    /\ pc = "infeasible" => ast_funcs # graph.exports
    /\ (pc \in Range(Strategies) /\ ast_funcs = graph.exports) =>
           LET input == InputOf(pc)
           IN  /\ \A i \in 1..Len(input.path_constraints) :
                      ConstraintVars(input, input.path_constraints[i]) # {}
               /\ Feasible(input) # {}

\* an AST-only instance with a path whose terminal function is no candidate
C8_Witness ==
    /\ pc = "ast_low"
    /\ ast_funcs = graph.exports
    /\ \E path \in ExtractedPaths : Len(path) = 3 /\ Last(path) \notin ast_funcs

\* C9: in hybrid mode the DOM variables of a path's constraint are exactly
\* the direct DOM operations of the terminal function of the extracted path.
C9_TerminalDirectDom ==
    (pc \in Range(Strategies) /\ IncludeDom(pc)) =>
        LET input == InputOf(pc)
            all_paths == AllPaths(paths)
        IN  \A i \in 1..Len(all_paths) :
                ConstraintVars(input, input.path_constraints[i]) \cap XDom(input)
                    = {make_dom_key(d) : d \in Get(graph.dom_calls, Last(all_paths[i]), {})}

\* the size of the solution of strategy k: len(ast) + len(dom)
TotalOf(k) == Len(solutions[k].ast) + Len(solutions[k].dom)

\* C11: on the same paths, coverage, distances and candidates the tie-break
\* preference does not change the total size (ast_low and ast_high have the
\* same size, and so do hybrid_low and hybrid_high), and the hybrid total is
\* at most the AST-only total.
C11_SizeRelations ==
    /\ {"ast_low", "ast_high"} \subseteq DOMAIN solutions =>
           TotalOf("ast_low") = TotalOf("ast_high")
    /\ {"hybrid_low", "hybrid_high"} \subseteq DOMAIN solutions =>
           TotalOf("hybrid_low") = TotalOf("hybrid_high")
    /\ {"ast_low", "hybrid_low"} \subseteq DOMAIN solutions =>
           TotalOf("hybrid_low") <= TotalOf("ast_low")

\* all four strategies solved: admitting DOM candidates makes the solution
\* strictly smaller, and the two hybrid strategies return different
\* selections of the same size
C11_Witness ==
    /\ pc = "done"
    /\ TotalOf("hybrid_low") < TotalOf("ast_low")
    /\ solutions["hybrid_low"].ast # solutions["hybrid_high"].ast
    /\ solutions["hybrid_low"].dom # <<>>

====
